---------------------------- MODULE Spec2Model ----------------------------
(***************************************************************************)
(* Model of leastsquares_butpmcc.py, the narrow-band least-squares array   *)
(* processing script: a linear pipeline (gather, plan bands and windows,   *)
(* geometry, broadband pass, two figures, allocation) followed by a loop   *)
(* over nbands bands and two more figures.                                 *)
(*                                                                         *)
(* Numbers.  Frequencies and window lengths are exact rationals <<n, d>>   *)
(* (d > 0); np.linspace is computed exactly.  Logarithmic band edges are   *)
(* computed for inputs whose ratio FMAX/FMIN is a perfect nbands-th power, *)
(* where 10**linspace(log10 FMIN, log10 FMAX) is FMIN * r^i exactly.       *)
(* int(x) of a non-negative x is the floor.                                *)
(*                                                                         *)
(* Indices.  Python indices are 0-based; arrays are functions on 0..n-1,   *)
(* lists are TLA+ sequences read through PyIndex.                          *)
(***************************************************************************)
EXTENDS Integers, Sequences, FiniteSets, TLC

VARIABLES
    cfg,              \* the User Input block (lines 35-98)
    env,              \* what the run meets: archive, files, heap, namespace
    pc,               \* position of the interpreter in the script
    error,            \* the uncaught exception that ended the run, if any
    st,               \* the Waveform Collection: channels in stream order,
                      \* the units of each trace's data, the filters applied
    latlist, lonlist, \* element coordinates
    freqlist,         \* band edges
    WINLEN_list,      \* per-band window lengths
    rij,              \* geometry matrix, one column per element
    stf_broad,        \* broadband filtered stream
    Fs, sos,          \* sample rate and filter of the latest filter_data call
    beam,             \* the latest ltsva call: its arguments and its outputs
    w_broad, h_broad, \* broadband filter response
    saved, open,      \* figure files written, figures held open
    vector_len,
    vel_array, baz_array, mdccm_array, t_array,
    w_array, h_array,
    num_compute_list,
    ii,               \* loop index of the band loop
    tempfmin, tempfmax, tempst_filter,
    floats,           \* vel_float, baz_float, mdccm_float, t_float
    prev              \* aggregate arrays of the previous completed run

input == <<cfg, env>>
plan == <<freqlist, WINLEN_list>>
data == <<st, latlist, lonlist, rij>>
broad == <<stf_broad, w_broad, h_broad>>
figs == <<saved, open>>
aggregate == <<vel_array, baz_array, mdccm_array, t_array>>
response == <<w_array, h_array>>
alloc == <<vector_len, aggregate, response, num_compute_list>>
band == <<tempfmin, tempfmax, tempst_filter, floats>>
latest == <<Fs, sos, beam>>
program == <<data, plan, broad, figs, alloc, ii, band, latest>>
vars == <<input, pc, error, program, prev>>

----------------------------------------------------------------------------
(* Bounds of the model *)

MaxBands == 2
MaxWinlen == 4
MaxChan == 2
NHeaps == 2
MaxScheduleBands == 4

WinLens == 2..MaxWinlen
WinOvers == {<<0, 1>>, <<1, 2>>, <<3, 4>>}
SampleRates == {1, 2}
RecordLengths == {8, 9}
Edges == {<<1, 4>>, <<1, 8>>, <<2, 4>>, <<2, 8>>}

----------------------------------------------------------------------------
(* Arithmetic *)

Min(a, b) == IF a < b THEN a ELSE b

RECURSIVE Pow(_, _)
Pow(b, e) == IF e = 0 THEN 1 ELSE b * Pow(b, e - 1)

RatLT(p, q) == p[1] * q[2] < q[1] * p[2]
RatLE(p, q) == p[1] * q[2] <= q[1] * p[2]
RatEq(p, q) == p[1] * q[2] = q[1] * p[2]

\* int(x) for x >= 0
int(q) == q[1] \div q[2]

\* int((1 - WINOVER) * w) as the interpreter computes it, in binary doubles
\* (53-bit significand, round to nearest even), for WINOVER = p/q in [0, 1)
\* and an integer w >= 0.  With r53 = p * 2^53 mod q the double nearest to
\* p/q, subtracted from 1 and rounded, differs from 1 - p/q by
\* (r53/q - c) * 2^-53, c in {0, 1} the direction of the rounding.  The
\* product is below the integer n = w * (1 - p/q) and int() drops to n - 1
\* exactly when c = 1 and w * (1 - r53/q) * 2^-53 exceeds half the spacing
\* of the doubles below n.
RECURSIVE Pow2Mod(_, _)
Pow2Mod(e, q) == IF e = 0 THEN 1 % q ELSE (2 * Pow2Mod(e - 1, q)) % q

RECURSIVE LeadingZeros(_, _)
LeadingZeros(p, q) == IF 2 * p >= q THEN 0 ELSE 1 + LeadingZeros(2 * p, q)

RECURSIVE CeilPow2(_, _)
CeilPow2(n, k) == IF k >= n THEN k ELSE CeilPow2(n, 2 * k)

int_one_minus_times(winover, w) ==
    LET p == winover[1]
        q == winover[2]
        n == (w * (q - p)) \div q
        r53 == (p * Pow2Mod(53, q)) % q
        r52 == (p * Pow2Mod(52, q)) % q
        j == LeadingZeros(p, q)
        low == (2 * Pow(2, j) * r53 + q) \div (2 * q)
        c == IF 2 * low < Pow(2, j) THEN 0
             ELSE IF 2 * low > Pow(2, j) THEN 1
             ELSE (2 * r52) \div q
    IN  IF r53 = 0 \/ (w * (q - p)) % q # 0 \/ n = 0 \/ c = 0 THEN n
        ELSE IF 2 * w * (q - r53) > q * CeilPow2(n, 1) THEN n - 1
        ELSE n

\* len(np.arange(0, stop, step)) for step > 0
arange_len(stop, step) == (stop + step - 1) \div step

\* np.linspace(start, stop, num): num samples, the last one stop; a single
\* sample is start.
linspace(start, stop, num) ==
    LET div == IF num > 1 THEN num - 1 ELSE 1
    IN  [k \in 1..num |-> <<start * div + (k - 1) * (stop - start), div>>]

PerfectPower(q, n) == \E r \in 1..q : Pow(r, n) = q
IRoot(q, n) == CHOOSE r \in 1..q : Pow(r, n) = q

\* 10 ** np.linspace(log10(start), log10(stop), num), num >= 2
logspace(start, stop, num) ==
    LET r == IRoot(stop \div start, num - 1)
    IN  [k \in 1..num |-> <<start * Pow(r, k - 1), 1>>]

PyIndex(list, k) == list[k + 1]

----------------------------------------------------------------------------
(* Helpers of the repository (helpers.py) and the external libraries *)

\* get_freqlist: nbands+1 edges, evenly spaced or evenly spaced in log10
get_freqlist(FMIN, FMAX, freq_band_type, nbands) ==
    IF freq_band_type = "linear"
    THEN linspace(FMIN, FMAX, nbands + 1)
    ELSE logspace(FMIN, FMAX, nbands + 1)

\* get_winlenlist: one length per band, flat or interpolated over band index
\* from WINLEN_1 (band 0) to WINLEN_X (band nbands-1).  A single adaptive
\* band is band 0 and band nbands-1 at once; which end it takes is a property
\* of the installed helpers.py (env.one_band), the same in every run.
get_winlenlist(window_length, nbands, WINLEN, WINLEN_1, WINLEN_X) ==
    IF window_length = "constant"
    THEN [k \in 1..nbands |-> <<WINLEN, 1>>]
    ELSE IF nbands = 1
    THEN <<<<IF env.one_band = "first" THEN WINLEN_1 ELSE WINLEN_X, 1>>>>
    ELSE linspace(WINLEN_1, WINLEN_X, nbands)

\* Stream.trim(START, END): every trace is cut to its samples between START
\* and END, and a trace left without samples is removed from the stream
RECURSIVE Keep(_, _)
Keep(seq, inside) ==
    IF seq = <<>> THEN <<>>
    ELSE (IF Head(inside) THEN <<Head(seq)>> ELSE <<>>) \o Keep(Tail(seq), Tail(inside))

trim(stream, inside, window) ==
    [stream EXCEPT !.traces = Keep(@, inside), !.units = Keep(@, inside),
                   !.npts = Min(@, window)]

\* The filter designed for a pass band, and its response on a grid
design(filter_type, fmin, fmax, order, ripple) ==
    [type |-> filter_type, band |-> <<fmin, fmax>>, order |-> order]

sosfreqz(s, grid, fs) == [w |-> grid, h |-> [kind |-> "H", band |-> s.band]]

\* filter_data: a filtered copy of the stream, its sample rate, the filter
filter_data(stream, filter_type, fmin, fmax, order, ripple) ==
    [stf |-> [stream EXCEPT !.filt = Append(@, <<fmin, fmax>>)],
     Fs  |-> stream.Fs,
     sos |-> design(filter_type, fmin, fmax, order, ripple)]

\* getrij: one column of relative coordinates per latitude/longitude pair
getrij(lats, lons) == [k \in 1..Len(lats) |-> <<lats[k], lons[k]>>]

\* ltsva: the window increment in samples, and the number of analysis
\* windows over the record; an increment of 0 makes the library raise
sampinc_ltsva(fs, winlen, winover) ==
    LET winlensamp == int(<<winlen[1] * fs, winlen[2]>>)
    IN  int_one_minus_times(winover, winlensamp)

nits_ltsva(npts, fs, winlen, winover) ==
    LET inc == sampinc_ltsva(fs, winlen, winover)
    IN  IF inc = 0 THEN 0 ELSE arange_len(npts, inc) - 1

\* ltsva: one estimate per window, a function of the filtered stream, the
\* geometry and the window; delivered in the library's own element type
estimate(kind, stream, geometry, j) == <<kind, stream.filt, geometry, j>>

ltsva(stream, geometry, winlen, winover, alpha) ==
    LET n == nits_ltsva(stream.npts, stream.Fs, winlen, winover)
        out(kind) == [j \in 1..n |-> <<"obj", estimate(kind, stream, geometry, j)>>]
    IN  [stream |-> stream, winlen |-> winlen,
         vel |-> out("vel"), baz |-> out("baz"),
         t |-> out("t"), mdccm |-> out("mdccm")]

\* make_float: the same sequence as a dense array of floats
make_float(list) == [j \in 1..Len(list) |-> list[j][2]]

\* np.empty(shape): cells hold whatever the heap held, read as floats
leftover(heap, id, i, j) == <<"leftover", <<>>, <<>>, (heap + id + i + j) % 3>>
np_empty(heap, id, rows, cols) ==
    [i \in 0..(rows - 1) |-> [j \in 0..(cols - 1) |-> leftover(heap, id, i, j)]]

\* a[i, :len(vals)] = vals on a row of `cols` cells: the slice is clipped to
\* the row; a value of the slice's length is copied, a value of length 1 is
\* broadcast over the slice, anything else is a ValueError.
slice_len(cols, n) == Min(n, cols)
can_assign(cols, vals) ==
    \/ Len(vals) = slice_len(cols, Len(vals))
    \/ Len(vals) = 1
assign_row(row, cols, vals) ==
    LET m == slice_len(cols, Len(vals))
    IN  [j \in 0..(cols - 1) |->
            IF j < m THEN (IF Len(vals) = m THEN vals[j + 1] ELSE vals[1])
            ELSE row[j]]

----------------------------------------------------------------------------
(* Inputs: the User Input block and the environment of a run *)

ALPHA == 1

latitude(station) == 10 + station
longitude(station) == 20 + station

Perms(n) == {f \in [1..n -> 1..n] : \A a, b \in 1..n : f[a] = f[b] => a = b}
Orders == UNION {Perms(n) : n \in 1..MaxChan}

\* The shipped configuration (lines 35-98), scaled down
DefaultCfg ==
    [SOURCE |-> "IRIS", FMIN |-> 1, FMAX |-> 4, nbands |-> 2,
     freq_band_type |-> "log", filter_type |-> "cheby1", filter_order |-> 2,
     WINOVER |-> <<1, 2>>, window_length |-> "adaptive",
     WINLEN |-> 3, WINLEN_1 |-> 4, WINLEN_X |-> 2,
     latlist |-> <<>>, lonlist |-> <<>>]

\* archive: the channels the source delivers, in stream order, each with
\* npts samples; window: the samples between START and END; inside: which
\* files hold samples between START and END; heap: the memory image np.empty
\* draws from; plt: whether the name plt resolves in the namespace the script
\* runs in (the script itself never binds it); one_band: the end of the
\* schedule get_winlenlist gives a single adaptive band.
DefaultEnv ==
    [archive |-> <<1, 2>>, Fs |-> 2, npts |-> 8, window |-> 9,
     inside |-> <<TRUE, TRUE>>, heap |-> 1, plt |-> TRUE, one_band |-> "first"]

ValidEdges(ft, n, e) ==
    /\ e[1] < e[2]
    /\ ft = "log" => (e[2] % e[1] = 0 /\ PerfectPower(e[2] \div e[1], n))

BandInputs ==
    {<<[DefaultCfg EXCEPT !.nbands = n, !.freq_band_type = ft,
                          !.FMIN = e[1], !.FMAX = e[2]], DefaultEnv>> :
        <<n, ft, e>> \in {x \in (1..MaxBands) \X {"linear", "log"} \X Edges :
                            ValidEdges(x[2], x[1], x[3])}}

\* The shipped spacing where the default edges allow nbands exact log bands
Spacing(n) ==
    IF ValidEdges(DefaultCfg.freq_band_type, n, <<DefaultCfg.FMIN, DefaultCfg.FMAX>>)
    THEN DefaultCfg.freq_band_type ELSE "linear"

\* Window settings; with a constant window length WINLEN_1 and WINLEN_X are
\* read by nothing but the call at line 141, which then ignores them
WindowLengths(wl) ==
    IF wl = "constant"
    THEN {<<w, DefaultCfg.WINLEN_1, DefaultCfg.WINLEN_X>> : w \in WinLens}
    ELSE WinLens \X WinLens \X WinLens

WindowInputs ==
    {<<[DefaultCfg EXCEPT !.nbands = x[1], !.freq_band_type = Spacing(x[1]),
                          !.window_length = x[2], !.WINOVER = x[3],
                          !.WINLEN = x[4][1], !.WINLEN_1 = x[4][2],
                          !.WINLEN_X = x[4][3]],
       [DefaultEnv EXCEPT !.Fs = x[5], !.npts = x[6]]>> :
        x \in UNION {(1..MaxBands) \X {wl} \X WinOvers \X WindowLengths(wl)
                        \X SampleRates \X RecordLengths :
                     wl \in {"constant", "adaptive"}}}

Environments ==
    {[DefaultEnv EXCEPT !.archive = a, !.inside = [k \in DOMAIN a |-> TRUE],
                        !.heap = h, !.plt = p] :
        a \in Orders, h \in 1..NHeaps, p \in BOOLEAN}

IrisInputs == {<<DefaultCfg, e>> : e \in Environments}

\* The local example (lines 61-70) configures the element coordinates by hand
LocalInputs ==
    {<<[DefaultCfg EXCEPT !.SOURCE = "local",
            !.latlist = [k \in DOMAIN c |-> latitude(c[k])],
            !.lonlist = [k \in DOMAIN c |-> longitude(c[k])]], e>> :
        c \in Orders, e \in Environments}

\* Overlaps that are not exact in binary, with window lengths that make
\* (1 - WINOVER) * WINLEN an integer
RoundingInputs ==
    {<<[DefaultCfg EXCEPT !.nbands = n, !.freq_band_type = Spacing(n),
                          !.window_length = wl, !.WINOVER = wo,
                          !.WINLEN = w[1], !.WINLEN_1 = w[2], !.WINLEN_X = w[3]],
       [DefaultEnv EXCEPT !.npts = np]>> :
        n \in 1..MaxBands, wl \in {"constant", "adaptive"},
        wo \in {<<4, 5>>, <<9, 10>>},
        w \in {5, 10} \X {5, 10} \X {5, 10}, np \in RecordLengths}

\* Local files longer than the time window, or partly outside it; START and
\* END overlap the record of at least one file
TrimInputs ==
    {<<[DefaultCfg EXCEPT !.SOURCE = "local",
            !.latlist = [k \in DOMAIN DefaultEnv.archive |-> latitude(DefaultEnv.archive[k])],
            !.lonlist = [k \in DOMAIN DefaultEnv.archive |-> longitude(DefaultEnv.archive[k])]],
       [DefaultEnv EXCEPT !.npts = np, !.window = w, !.inside = i]>> :
        np \in RecordLengths, w \in RecordLengths,
        i \in {f \in [DOMAIN DefaultEnv.archive -> BOOLEAN] :
                 \E k \in DOMAIN f : f[k]}}

\* Schedules long enough to have entries between the two ends, and the
\* single-band schedule under either reading of its one entry
OneBandEnds(n) == IF n = 1 THEN {"first", "last"} ELSE {DefaultEnv.one_band}

ScheduleInputs ==
    {<<[DefaultCfg EXCEPT !.nbands = x[1], !.freq_band_type = Spacing(x[1]),
                          !.window_length = x[2],
                          !.WINLEN_1 = x[3], !.WINLEN_X = x[4]],
       [DefaultEnv EXCEPT !.one_band = x[5]]>> :
        x \in UNION {{n} \X {"constant", "adaptive"} \X WinLens \X WinLens
                        \X OneBandEnds(n) : n \in 1..MaxScheduleBands}}

Inputs ==
    BandInputs \cup WindowInputs \cup RoundingInputs \cup IrisInputs
        \cup LocalInputs \cup TrimInputs \cup ScheduleInputs

----------------------------------------------------------------------------
(* State before the first statement *)

\* A name that holds no stream yet, and the stream Stream() returns
NoStream ==
    [bound |-> FALSE, traces |-> <<>>, Fs |-> 0, npts |-> 0, units |-> <<>>,
     filt |-> <<>>]
Stream == [NoStream EXCEPT !.bound = TRUE]
NoFilter == [type |-> "none", band |-> <<>>, order |-> 0]
NoBeam == [stream |-> NoStream, winlen |-> <<0, 1>>,
           vel |-> <<>>, baz |-> <<>>, t |-> <<>>, mdccm |-> <<>>]
NoFloats == [vel |-> <<>>, baz |-> <<>>, t |-> <<>>, mdccm |-> <<>>]
NoError == [at |-> "none", exc |-> "none"]

Fresh ==
    /\ pc = "gather"
    /\ error = NoError
    /\ st = NoStream /\ latlist = cfg.latlist /\ lonlist = cfg.lonlist /\ rij = <<>>
    /\ freqlist = <<>> /\ WINLEN_list = <<>>
    /\ stf_broad = NoStream /\ w_broad = <<>> /\ h_broad = <<>>
    /\ Fs = 0 /\ sos = NoFilter /\ beam = NoBeam
    /\ saved = <<>> /\ open = {}
    /\ vector_len = 0
    /\ vel_array = <<>> /\ baz_array = <<>> /\ mdccm_array = <<>> /\ t_array = <<>>
    /\ w_array = <<>> /\ h_array = <<>>
    /\ num_compute_list = <<>>
    /\ ii = 0
    /\ tempfmin = <<0, 1>> /\ tempfmax = <<0, 1>> /\ tempst_filter = NoStream
    /\ floats = NoFloats

Init ==
    /\ \E x \in Inputs : cfg = x[1] /\ env = x[2]
    /\ prev = <<>>
    /\ Fresh

----------------------------------------------------------------------------
(* The script, statement by statement *)

\* Variant: the exception is recorded and the statement is tried again
RaiseAndRetry(exc) ==
    /\ pc' = pc
    /\ error' = [at |-> pc, exc |-> exc]
    /\ UNCHANGED <<input, program, prev>>

\* No statement of the script sits in a try block: an exception ends the run
\* where it is raised, before the statement's assignments take effect.
Raise(exc) ==
    /\ pc' = "failed"
    /\ error' = [at |-> pc, exc |-> exc]
    /\ UNCHANGED <<input, program, prev>>

Goto(next) ==
    /\ pc' = next
    /\ UNCHANGED <<input, error, prev>>

\* Lines 114-117
GatherIRIS ==
    /\ pc = "gather"
    /\ cfg.SOURCE = "IRIS"
    /\ st' = [Stream EXCEPT !.traces = env.archive, !.Fs = env.Fs,
                             !.npts = env.npts,
                             !.units = [k \in DOMAIN env.archive |-> "Pa"]]
    /\ latlist' = [k \in DOMAIN env.archive |-> latitude(env.archive[k])]
    /\ lonlist' = [k \in DOMAIN env.archive |-> longitude(env.archive[k])]
    /\ Goto("bands")
    /\ UNCHANGED <<rij, plan, broad, figs, alloc, ii, band, latest>>

\* Line 120
LocalStream ==
    /\ pc = "gather"
    /\ cfg.SOURCE = "local"
    /\ st' = Stream
    /\ Goto("local_read")
    /\ UNCHANGED <<latlist, lonlist, rij, plan, broad, figs, alloc, ii, band, latest>>

\* Line 121: the files' traces, in counts, are added to the stream
LocalRead ==
    /\ pc = "local_read"
    /\ st' = [st EXCEPT !.traces = env.archive, !.Fs = env.Fs, !.npts = env.npts,
                        !.units = [k \in DOMAIN env.archive |-> "counts"]]
    /\ Goto("local_trim")
    /\ UNCHANGED <<latlist, lonlist, rij, plan, broad, figs, alloc, ii, band, latest>>

\* Line 122: the traces are cut in place to the time window
LocalTrim ==
    /\ pc = "local_trim"
    /\ st' = trim(st, env.inside, env.window)
    /\ Goto("local_calib")
    /\ UNCHANGED <<latlist, lonlist, rij, plan, broad, figs, alloc, ii, band, latest>>

\* Line 124: range(len(st)) hands out 0, 1, .. one per trace; the traces
\* before the one handed out are the calibrated ones.  When the range is
\* exhausted ii keeps its last value; latlist and lonlist stay as configured
calib_position == Cardinality({k \in DOMAIN st.units : st.units[k] = "counts*calib"})

LocalCalibNext ==
    /\ pc = "local_calib"
    /\ IF calib_position < Len(st.traces)
       THEN ii' = calib_position /\ Goto("local_scale")
       ELSE ii' = ii /\ Goto("bands")
    /\ UNCHANGED <<data, plan, broad, figs, alloc, band, latest>>

\* Lines 125-126: tr.data = tr.data*calib on trace ii
LocalCalibrate ==
    /\ pc = "local_scale"
    /\ st' = [st EXCEPT !.units[ii + 1] = "counts*calib"]
    /\ Goto("local_calib")
    /\ UNCHANGED <<latlist, lonlist, rij, plan, broad, figs, alloc, ii, band, latest>>

\* Line 134
freqlist_call == get_freqlist(cfg.FMIN, cfg.FMAX, cfg.freq_band_type, cfg.nbands)

SetUpBands ==
    /\ pc = "bands"
    /\ freqlist' = freqlist_call
    /\ Goto("winlens")
    /\ UNCHANGED <<data, WINLEN_list, broad, figs, alloc, ii, band, latest>>

\* Variant: the two end lengths passed in the other order
WINLEN_list_call_swapped ==
    get_winlenlist(cfg.window_length, cfg.nbands, cfg.WINLEN, cfg.WINLEN_X, cfg.WINLEN_1)

\* Line 141
WINLEN_list_call ==
    get_winlenlist(cfg.window_length, cfg.nbands, cfg.WINLEN, cfg.WINLEN_1, cfg.WINLEN_X)

SetUpWindowLengths ==
    /\ pc = "winlens"
    /\ WINLEN_list' = WINLEN_list_call
    /\ Goto("geometry")
    /\ UNCHANGED <<data, freqlist, broad, figs, alloc, ii, band, latest>>

\* Line 149
ArrayGeometry ==
    /\ pc = "geometry"
    /\ rij' = getrij(latlist, lonlist)
    /\ Goto("broad_filter")
    /\ UNCHANGED <<st, latlist, lonlist, plan, broad, figs, alloc, ii, band, latest>>

\* Line 157
broad_filter_call ==
    filter_data(st, cfg.filter_type, <<cfg.FMIN, 1>>, <<cfg.FMAX, 1>>,
                cfg.filter_order, "ripple")

BroadFilter ==
    /\ pc = "broad_filter"
    /\ stf_broad' = broad_filter_call.stf
    /\ Fs' = broad_filter_call.Fs
    /\ sos' = broad_filter_call.sos
    /\ Goto("broad_ltsva")
    /\ UNCHANGED <<data, plan, w_broad, h_broad, figs, alloc, ii, band, beam>>

\* Line 158
broad_ltsva_call == ltsva(stf_broad, rij, <<cfg.WINLEN, 1>>, cfg.WINOVER, ALPHA)

BroadBeamform ==
    /\ pc = "broad_ltsva"
    /\ IF sampinc_ltsva(stf_broad.Fs, <<cfg.WINLEN, 1>>, cfg.WINOVER) > 0
       THEN /\ beam' = broad_ltsva_call
            /\ Goto("fig1_plot")
            /\ UNCHANGED <<data, plan, broad, figs, alloc, ii, band, Fs, sos>>
       ELSE Raise("library")

\* A figure is made, written under a fixed name, and released
Plot(handle, next) ==
    /\ open' = open \cup {handle}
    /\ Goto(next)
    /\ UNCHANGED <<data, plan, broad, saved, alloc, ii, band, latest>>

Save(name, next) ==
    /\ saved' = Append(saved, name)
    /\ Goto(next)
    /\ UNCHANGED <<data, plan, broad, open, alloc, ii, band, latest>>

\* plt.close(handle): the name plt is looked up first
Close(handle, next) ==
    IF env.plt
    THEN /\ open' = open \ {handle}
         /\ Goto(next)
         /\ UNCHANGED <<data, plan, broad, saved, alloc, ii, band, latest>>
    ELSE Raise("NameError")

\* Lines 161-163
Fig1Plot == pc = "fig1_plot" /\ Plot("fig1", "fig1_save")
Fig1Save == pc = "fig1_save" /\ Save("LeastSquares", "fig1_close")
Fig1Close == pc = "fig1_close" /\ Close("fig1", "resp")

\* Lines 169-172
freq_resp_list(fs) == <<"grid", fs>>

BroadResponse ==
    /\ pc = "resp"
    /\ w_broad' = sosfreqz(sos, freq_resp_list(Fs), Fs).w
    /\ h_broad' = sosfreqz(sos, freq_resp_list(Fs), Fs).h
    /\ Goto("fig2_plot")
    /\ UNCHANGED <<data, plan, stf_broad, figs, alloc, ii, band, latest>>

\* Lines 175-178
Fig2Plot == pc = "fig2_plot" /\ Plot("fig", "fig2_save")
Fig2Save == pc = "fig2_save" /\ Save("Filter_Frequency_Response_Broadband", "fig2_close")
Fig2Close == pc = "fig2_close" /\ Close("fig", "alloc")

\* Lines 186-189: the increment the capacity is computed from
sampinc ==
    IF cfg.window_length = "constant"
    THEN int_one_minus_times(cfg.WINOVER, cfg.WINLEN)
    ELSE int_one_minus_times(cfg.WINOVER, cfg.WINLEN_X)

\* Lines 190-193
capacity ==
    LET npts == st.npts
        nits == arange_len(npts, sampinc) - 1
    IN  int(<<nits, Fs>>)

leftover_row(heap, id, i) ==
    [kind |-> "leftover", band |-> <<<<heap + id + i, 1>>, <<heap + id + i, 1>>>>]

\* Lines 186-193: the increment, the record length, the window starts and
\* the column capacity
Capacity ==
    /\ pc = "alloc"
    /\ sampinc > 0
    /\ vector_len' = capacity
    /\ Goto("alloc_vel")
    /\ UNCHANGED <<data, plan, broad, figs, aggregate, response, num_compute_list,
                   ii, band, latest>>

\* Line 191: np.arange(0, npts, 0)
CapacityFails ==
    /\ pc = "alloc"
    /\ sampinc = 0
    /\ Raise("ZeroDivisionError")

\* Line 196
AllocateVel ==
    /\ pc = "alloc_vel"
    /\ vel_array' = np_empty(env.heap, 1, cfg.nbands, vector_len)
    /\ Goto("alloc_baz")
    /\ UNCHANGED <<data, plan, broad, figs, vector_len, baz_array, mdccm_array,
                   t_array, response, num_compute_list, ii, band, latest>>

\* Line 197
AllocateBaz ==
    /\ pc = "alloc_baz"
    /\ baz_array' = np_empty(env.heap, 2, cfg.nbands, vector_len)
    /\ Goto("alloc_mdccm")
    /\ UNCHANGED <<data, plan, broad, figs, vector_len, vel_array, mdccm_array,
                   t_array, response, num_compute_list, ii, band, latest>>

\* Line 198
AllocateMdccm ==
    /\ pc = "alloc_mdccm"
    /\ mdccm_array' = np_empty(env.heap, 3, cfg.nbands, vector_len)
    /\ Goto("alloc_t")
    /\ UNCHANGED <<data, plan, broad, figs, vector_len, vel_array, baz_array,
                   t_array, response, num_compute_list, ii, band, latest>>

\* Line 199
AllocateT ==
    /\ pc = "alloc_t"
    /\ t_array' = np_empty(env.heap, 4, cfg.nbands, vector_len)
    /\ Goto("alloc_w")
    /\ UNCHANGED <<data, plan, broad, figs, vector_len, vel_array, baz_array,
                   mdccm_array, response, num_compute_list, ii, band, latest>>

\* Line 202
AllocateW ==
    /\ pc = "alloc_w"
    /\ w_array' = [i \in 0..(cfg.nbands - 1) |-> <<"leftover", env.heap + 5 + i>>]
    /\ Goto("alloc_h")
    /\ UNCHANGED <<data, plan, broad, figs, vector_len, aggregate, h_array,
                   num_compute_list, ii, band, latest>>

\* Line 203
AllocateH ==
    /\ pc = "alloc_h"
    /\ h_array' = [i \in 0..(cfg.nbands - 1) |-> leftover_row(env.heap, 6, i)]
    /\ Goto("cores")
    /\ UNCHANGED <<data, plan, broad, figs, vector_len, aggregate, w_array,
                   num_compute_list, ii, band, latest>>

\* Lines 207-208: the core count is printed and used by nothing
CountCores ==
    /\ pc = "cores"
    /\ Goto("count_list")
    /\ UNCHANGED program

\* Line 214
EmptyCountList ==
    /\ pc = "count_list"
    /\ num_compute_list' = <<>>
    /\ Goto("loop")
    /\ UNCHANGED <<data, plan, broad, figs, vector_len, aggregate, response, ii,
                   band, latest>>

\* Line 215: range(nbands) hands out 0, 1, .. one per pass; num_compute_list
\* gains one entry per pass, so its length is the number of passes made.
\* When the range is exhausted ii keeps its last value.
loop_position == Len(num_compute_list)

LoopNext ==
    /\ pc = "loop"
    /\ IF loop_position < cfg.nbands
       THEN ii' = loop_position /\ Goto("band_fmin")
       ELSE ii' = ii /\ Goto("fig3_plot")
    /\ UNCHANGED <<data, plan, broad, figs, alloc, band, latest>>

\* Variant: the band reads the next pair of edges
band_edges_shifted == <<ii + 1, ii + 2>>

\* Lines 216-217: the edges of band ii
band_edges == <<ii, ii + 1>>

\* Variant: the band filters the broadband filtered stream
band_filter_input_broad == stf_broad

\* Line 219: the stream the band filter is applied to
band_filter_input == st

\* Line 216
BandLower ==
    /\ pc = "band_fmin"
    /\ IF band_edges[1] + 1 \in DOMAIN freqlist
       THEN /\ tempfmin' = PyIndex(freqlist, band_edges[1])
            /\ Goto("band_fmax")
            /\ UNCHANGED <<data, plan, broad, figs, alloc, ii, tempfmax,
                           tempst_filter, floats, latest>>
       ELSE Raise("IndexError")

\* Line 217
BandUpper ==
    /\ pc = "band_fmax"
    /\ IF band_edges[2] + 1 \in DOMAIN freqlist
       THEN /\ tempfmax' = PyIndex(freqlist, band_edges[2])
            /\ Goto("band_filter")
            /\ UNCHANGED <<data, plan, broad, figs, alloc, ii, tempfmin,
                           tempst_filter, floats, latest>>
       ELSE Raise("IndexError")

\* Line 219
BandFilter ==
    /\ pc = "band_filter"
    /\ LET r == filter_data(band_filter_input, cfg.filter_type, tempfmin, tempfmax,
                            cfg.filter_order, "ripple")
       IN  /\ tempst_filter' = r.stf
           /\ Fs' = r.Fs
           /\ sos' = r.sos
    /\ Goto("band_resp")
    /\ UNCHANGED <<data, plan, broad, figs, alloc, ii, tempfmin, tempfmax,
                   floats, beam>>

\* Lines 220-222: the response of the band's filter goes to row ii
BandResponse ==
    /\ pc = "band_resp"
    /\ IF ii \in DOMAIN w_array
       THEN LET f == sosfreqz(sos, freq_resp_list(Fs), Fs)
            IN  /\ w_array' = [w_array EXCEPT ![ii] = f.w]
                /\ h_array' = [h_array EXCEPT ![ii] = f.h]
                /\ Goto("band_ltsva")
                /\ UNCHANGED <<data, plan, broad, figs, vector_len, aggregate,
                               num_compute_list, ii, band, latest>>
       ELSE Raise("IndexError")

\* Line 226: the window length of band ii
band_winlen_index == ii

\* Line 226
BandBeamform ==
    /\ pc = "band_ltsva"
    /\ IF band_winlen_index + 1 \notin DOMAIN WINLEN_list
       THEN Raise("IndexError")
       ELSE IF sampinc_ltsva(tempst_filter.Fs, PyIndex(WINLEN_list, band_winlen_index),
                             cfg.WINOVER) = 0
       THEN Raise("library")
       ELSE LET r == ltsva(tempst_filter, rij, PyIndex(WINLEN_list, band_winlen_index),
                           cfg.WINOVER, ALPHA)
            IN  /\ beam' = r
                /\ Goto("band_vel_float")
                /\ UNCHANGED <<data, plan, broad, figs, alloc, ii, band, Fs, sos>>

\* Lines 229-232, one conversion per statement
Convert(kind, next) ==
    /\ floats' = [floats EXCEPT ![kind] = make_float(beam[kind])]
    /\ Goto(next)
    /\ UNCHANGED <<data, plan, broad, figs, alloc, ii, tempfmin, tempfmax,
                   tempst_filter, latest>>

BandVelFloat == pc = "band_vel_float" /\ Convert("vel", "band_baz_float")
BandBazFloat == pc = "band_baz_float" /\ Convert("baz", "band_mdccm_float")
BandMdccmFloat == pc = "band_mdccm_float" /\ Convert("mdccm", "band_t_float")
BandTFloat == pc = "band_t_float" /\ Convert("t", "band_save")

\* Variant: the results go to the row after the band's own
save_row_shifted == (ii + 1) % cfg.nbands

\* Lines 238-241: the row the results of band ii are written to
save_row == ii

\* Variant: the recorded count is one more than the cells written
valid_count_off == Len(floats.vel) + 1

\* Line 242: the count recorded for band ii
valid_count == Len(floats.vel)

\* Lines 238-242; the four results have one length, so the first write
\* decides whether the writes fit
BandSave ==
    /\ pc = "band_save"
    /\ IF can_assign(vector_len, floats.vel) /\ save_row \in DOMAIN vel_array
       THEN /\ vel_array' = [vel_array EXCEPT ![save_row] = assign_row(@, vector_len, floats.vel)]
            /\ baz_array' = [baz_array EXCEPT ![save_row] = assign_row(@, vector_len, floats.baz)]
            /\ mdccm_array' = [mdccm_array EXCEPT ![save_row] = assign_row(@, vector_len, floats.mdccm)]
            /\ t_array' = [t_array EXCEPT ![save_row] = assign_row(@, vector_len, floats.t)]
            /\ num_compute_list' = Append(num_compute_list, valid_count)
            /\ Goto("loop")
            /\ UNCHANGED <<data, plan, broad, figs, vector_len, response, ii, band,
                           latest>>
       ELSE Raise(IF save_row \in DOMAIN vel_array THEN "ValueError" ELSE "IndexError")

\* Lines 252-254
Fig3Plot == pc = "fig3_plot" /\ Plot("fig", "fig3_save")
Fig3Save == pc = "fig3_save" /\ Save("Processing_Parameters", "fig3_close")
Fig3Close == pc = "fig3_close" /\ Close("fig", "fig4_plot")

\* Lines 262-264
Fig4Plot == pc = "fig4_plot" /\ Plot("fig", "fig4_save")
Fig4Save == pc = "fig4_save" /\ Save("LeastSquaresButPMCC", "fig4_close")
Fig4Close == pc = "fig4_close" /\ Close("fig", "done")

\* The statements that call code outside the script (the libraries,
\* helpers.py, plotting.py), each of which may raise; the call comes first,
\* the assignment of its result after it returns
LibrarySteps ==
    {"gather", "local_read", "local_trim", "local_scale",
     "bands", "winlens", "geometry", "broad_filter", "broad_ltsva",
     "fig1_plot", "fig1_save", "fig1_close", "resp",
     "fig2_plot", "fig2_save", "fig2_close",
     "alloc", "alloc_vel", "alloc_baz", "alloc_mdccm", "alloc_t", "alloc_w",
     "alloc_h", "cores",
     "band_filter", "band_resp", "band_ltsva",
     "band_vel_float", "band_baz_float", "band_mdccm_float", "band_t_float",
     "fig3_plot", "fig3_save", "fig3_close", "fig4_plot", "fig4_save", "fig4_close"}

CloseSteps == {"fig1_close", "fig2_close", "fig3_close", "fig4_close"}

LibraryFailure ==
    /\ pc \in LibrarySteps
    /\ pc \in CloseSteps => env.plt
    /\ pc = "alloc" => sampinc > 0
    /\ Raise("library")

Next ==
    \/ GatherIRIS
    \/ LocalStream \/ LocalRead \/ LocalTrim \/ LocalCalibNext \/ LocalCalibrate
    \/ SetUpBands \/ SetUpWindowLengths \/ ArrayGeometry
    \/ BroadFilter \/ BroadBeamform
    \/ Fig1Plot \/ Fig1Save \/ Fig1Close
    \/ BroadResponse
    \/ Fig2Plot \/ Fig2Save \/ Fig2Close
    \/ Capacity \/ CapacityFails
    \/ AllocateVel \/ AllocateBaz \/ AllocateMdccm \/ AllocateT
    \/ AllocateW \/ AllocateH
    \/ CountCores \/ EmptyCountList
    \/ LoopNext
    \/ BandLower \/ BandUpper \/ BandFilter \/ BandResponse \/ BandBeamform
    \/ BandVelFloat \/ BandBazFloat \/ BandMdccmFloat \/ BandTFloat
    \/ BandSave
    \/ Fig3Plot \/ Fig3Save \/ Fig3Close
    \/ Fig4Plot \/ Fig4Save \/ Fig4Close
    \/ LibraryFailure

Spec == Init /\ [][Next]_vars

\* The script is run a second time on the same input and configuration; the
\* heap it starts from is whatever the system hands out then.
Rerun ==
    /\ pc = "done"
    /\ prev = <<>>
    /\ prev' = <<[vel |-> vel_array, baz |-> baz_array, mdccm |-> mdccm_array,
                  t |-> t_array, counts |-> num_compute_list]>>
    /\ cfg' = cfg
    /\ \E h \in 1..NHeaps : env' = [env EXCEPT !.heap = h]
    /\ pc' = "gather"
    /\ error' = NoError
    /\ st' = NoStream /\ latlist' = cfg.latlist /\ lonlist' = cfg.lonlist /\ rij' = <<>>
    /\ freqlist' = <<>> /\ WINLEN_list' = <<>>
    /\ stf_broad' = NoStream /\ w_broad' = <<>> /\ h_broad' = <<>>
    /\ Fs' = 0 /\ sos' = NoFilter /\ beam' = NoBeam
    /\ saved' = <<>> /\ open' = {}
    /\ vector_len' = 0
    /\ vel_array' = <<>> /\ baz_array' = <<>> /\ mdccm_array' = <<>> /\ t_array' = <<>>
    /\ w_array' = <<>> /\ h_array' = <<>>
    /\ num_compute_list' = <<>>
    /\ ii' = 0
    /\ tempfmin' = <<0, 1>> /\ tempfmax' = <<0, 1>> /\ tempst_filter' = NoStream
    /\ floats' = NoFloats

NextTwoRuns == Next \/ Rerun

SpecTwoRuns == Init /\ [][NextTwoRuns]_vars

----------------------------------------------------------------------------
(* Vocabulary of the properties *)

Planned == freqlist # <<>> /\ WINLEN_list # <<>>
Allocated == DOMAIN vel_array # {}
Bands == 0..(cfg.nbands - 1)
Saved == 0..(Len(num_compute_list) - 1)
GatherSteps == {"gather", "local_read", "local_trim", "local_calib", "local_scale"}
AllocSteps ==
    {"alloc", "alloc_vel", "alloc_baz", "alloc_mdccm", "alloc_t", "alloc_w", "alloc_h",
     "cores", "count_list"}
FloatSteps == {"band_vel_float", "band_baz_float", "band_mdccm_float", "band_t_float"}
BandSteps ==
    {"band_fmin", "band_fmax", "band_filter", "band_resp", "band_ltsva", "band_save"}
        \cup FloatSteps
AfterLoop ==
    {"fig3_plot", "fig3_save", "fig3_close", "fig4_plot", "fig4_save", "fig4_close",
     "done"}
InLoop == pc \in BandSteps
Filtered == pc \in {"band_resp", "band_ltsva", "band_save"} \cup FloatSteps
Responded == pc \in {"band_ltsva", "band_save"} \cup FloatSteps
Beamformed == pc \in {"band_save"} \cup FloatSteps

Range(f) == {f[x] : x \in DOMAIN f}
Shortest(list) == CHOOSE w \in Range(list) : \A v \in Range(list) : RatLE(w, v)

\* Windows the beamformer returns on the record for a window length
Windows(winlen) == nits_ltsva(st.npts, st.Fs, winlen, cfg.WINOVER)

\* The float sequences band i yields from the unfiltered collection
BandResult(i, kind) ==
    LET f == filter_data(st, cfg.filter_type, PyIndex(freqlist, i),
                         PyIndex(freqlist, i + 1), cfg.filter_order, "ripple")
        r == ltsva(f.stf, rij, PyIndex(WINLEN_list, i), cfg.WINOVER, ALPHA)
    IN  [j \in 1..Len(r[kind]) |-> estimate(kind, f.stf, rij, j)]

RowHolds(array, id, kind, i) ==
    LET n == PyIndex(num_compute_list, i)
    IN  /\ \A j \in 0..(n - 1) :
              j \in DOMAIN array[i] /\ array[i][j] = BandResult(i, kind)[j + 1]
        /\ \A j \in DOMAIN array[i] :
              j >= n => array[i][j] = leftover(env.heap, id, i, j)

----------------------------------------------------------------------------
(* C1: the column capacity vector_len equals the number of windows the     *)
(* shortest window length of the bands gives over the record, and no band  *)
(* returns more windows than vector_len, so every row write fits.          *)
C1_CapacityFitsEveryBand ==
    Allocated =>
        /\ vector_len = Windows(Shortest(WINLEN_list))
        /\ \A i \in Bands : Windows(PyIndex(WINLEN_list, i)) <= vector_len

----------------------------------------------------------------------------
(* C3: once bands 0..k-1 are processed, num_compute_list has k entries     *)
(* (k = ii while band ii is in progress, k = nbands after the loop), entry *)
(* i is the length of band i's result, the first num_compute_list[i] cells *)
(* of row i of each aggregate array hold that result in order, and the     *)
(* cells from num_compute_list[i] on still hold what allocation left.      *)
C3_RowsHoldBandResults ==
    Allocated =>
        /\ InLoop => Len(num_compute_list) = ii
        /\ pc = "loop" /\ num_compute_list # <<>> => Len(num_compute_list) = ii + 1
        /\ pc \in AfterLoop =>
              Len(num_compute_list) = cfg.nbands /\ ii = cfg.nbands - 1
        /\ \A i \in Saved :
              /\ PyIndex(num_compute_list, i) = Len(BandResult(i, "vel"))
              /\ RowHolds(vel_array, 1, "vel", i)
              /\ RowHolds(baz_array, 2, "baz", i)
              /\ RowHolds(mdccm_array, 3, "mdccm", i)
              /\ RowHolds(t_array, 4, "t", i)

----------------------------------------------------------------------------
(* C2, as claimed: two completed runs on the same input and configuration  *)
(* end with identical aggregate arrays, cell for cell, the cells beyond a  *)
(* band's valid count included.                                            *)
SecondRunDone == pc = "done" /\ Len(prev) = 1

C2_TwoRunsIdentical ==
    SecondRunDone =>
        /\ vel_array = prev[1].vel
        /\ baz_array = prev[1].baz
        /\ mdccm_array = prev[1].mdccm
        /\ t_array = prev[1].t

(* C2, amended: two completed runs on the same input and configuration     *)
(* record the same valid counts and agree on every cell of every row below *)
(* that row's valid count.                                                 *)
AgreeBelowCount(a, b) ==
    /\ DOMAIN a = DOMAIN b
    /\ \A i \in DOMAIN a :
          /\ DOMAIN a[i] = DOMAIN b[i]
          /\ \A j \in DOMAIN a[i] :
                j < PyIndex(num_compute_list, i) => a[i][j] = b[i][j]

C2_TwoRunsAgreeOnValidCells ==
    SecondRunDone =>
        /\ num_compute_list = prev[1].counts
        /\ AgreeBelowCount(vel_array, prev[1].vel)
        /\ AgreeBelowCount(baz_array, prev[1].baz)
        /\ AgreeBelowCount(mdccm_array, prev[1].mdccm)
        /\ AgreeBelowCount(t_array, prev[1].t)

\* A second run has ended whose rows have valid cells and cells beyond them,
\* and it differs from the first run in a cell beyond the valid count.
C2_Witness ==
    /\ SecondRunDone
    /\ \E i \in Bands :
          /\ 0 < PyIndex(num_compute_list, i)
          /\ PyIndex(num_compute_list, i) < vector_len
          /\ vel_array[i][vector_len - 1] # prev[1].vel[i][vector_len - 1]

----------------------------------------------------------------------------
(* C4: the band planner returns nbands+1 strictly increasing edges from    *)
(* FMIN to FMAX; band ii of the loop reads edges ii and ii+1, always in    *)
(* range, lower below upper; consecutive bands share an edge and the bands *)
(* cover [FMIN, FMAX].                                                     *)
BandOf(i) == h_array[i].band
Entered == {i \in Bands : i \in Saved \/ (i = ii /\ Responded)}

C4_BandEdges ==
    /\ error.exc # "IndexError"
    /\ Planned =>
          /\ Len(freqlist) = cfg.nbands + 1
          /\ \A k \in 1..cfg.nbands : RatLT(freqlist[k], freqlist[k + 1])
          /\ RatEq(freqlist[1], <<cfg.FMIN, 1>>)
          /\ RatEq(freqlist[cfg.nbands + 1], <<cfg.FMAX, 1>>)
    /\ Allocated =>
          /\ \A i \in Entered :
                /\ BandOf(i) = <<PyIndex(freqlist, i), PyIndex(freqlist, i + 1)>>
                /\ RatLT(BandOf(i)[1], BandOf(i)[2])
                /\ i > 0 => BandOf(i)[1] = BandOf(i - 1)[2]
          /\ Filtered => /\ tempfmin = PyIndex(freqlist, ii)
                         /\ tempfmax = PyIndex(freqlist, ii + 1)
          /\ Responded => <<tempfmin, tempfmax>> = BandOf(ii)
          /\ pc = "done" =>
                /\ Entered = Bands
                /\ RatEq(BandOf(0)[1], <<cfg.FMIN, 1>>)
                /\ RatEq(BandOf(cfg.nbands - 1)[2], <<cfg.FMAX, 1>>)

\* A run over the largest number of logarithmic bands has ended
C4_Witness ==
    /\ pc = "done"
    /\ cfg.nbands = MaxBands
    /\ cfg.freq_band_type = "log"
    /\ Entered = Bands

----------------------------------------------------------------------------
(* C5, as claimed: WINLEN_list has nbands entries, read by the loop as     *)
(* WINLEN_list[ii]; adaptive: monotonic, first entry WINLEN_1, last entry  *)
(* WINLEN_X, linear in the band index, for every nbands >= 1; constant:    *)
(* every entry WINLEN.                                                     *)
Monotonic(list) ==
    \/ \A k \in 1..(Len(list) - 1) : RatLE(list[k], list[k + 1])
    \/ \A k \in 1..(Len(list) - 1) : RatLE(list[k + 1], list[k])

\* (nbands - 1) * (list[k] - WINLEN_1) = (k - 1) * (WINLEN_X - WINLEN_1)
Interpolated(list) ==
    \A k \in 1..Len(list) :
        (Len(list) - 1) * (list[k][1] - cfg.WINLEN_1 * list[k][2])
            = (k - 1) * (cfg.WINLEN_X - cfg.WINLEN_1) * list[k][2]

LoopReadsOwnEntry ==
    Beamformed =>
        ii + 1 \in DOMAIN WINLEN_list /\ beam.winlen = PyIndex(WINLEN_list, ii)

C5_WindowLengthEndpoints ==
    Planned =>
        /\ Len(WINLEN_list) = cfg.nbands
        /\ LoopReadsOwnEntry
        /\ cfg.window_length = "adaptive" =>
              /\ Monotonic(WINLEN_list)
              /\ RatEq(WINLEN_list[1], <<cfg.WINLEN_1, 1>>)
              /\ RatEq(WINLEN_list[cfg.nbands], <<cfg.WINLEN_X, 1>>)
              /\ Interpolated(WINLEN_list)
        /\ cfg.window_length = "constant" =>
              \A k \in 1..cfg.nbands : RatEq(WINLEN_list[k], <<cfg.WINLEN, 1>>)

(* C5, amended: as claimed for nbands >= 2; for nbands = 1 the list has    *)
(* one entry, which is WINLEN_1 and WINLEN_X when the two are equal.       *)
C5_WindowLengthSchedule ==
    Planned =>
        /\ Len(WINLEN_list) = cfg.nbands
        /\ LoopReadsOwnEntry
        /\ cfg.window_length = "adaptive" =>
              /\ cfg.nbands >= 2 =>
                    /\ Monotonic(WINLEN_list)
                    /\ RatEq(WINLEN_list[1], <<cfg.WINLEN_1, 1>>)
                    /\ RatEq(WINLEN_list[cfg.nbands], <<cfg.WINLEN_X, 1>>)
                    /\ Interpolated(WINLEN_list)
              /\ cfg.nbands = 1 /\ cfg.WINLEN_1 = cfg.WINLEN_X =>
                    RatEq(WINLEN_list[1], <<cfg.WINLEN_1, 1>>)
        /\ cfg.window_length = "constant" =>
              \A k \in 1..cfg.nbands : RatEq(WINLEN_list[k], <<cfg.WINLEN, 1>>)

\* A band between the first and the last of the longest adaptive schedule
\* has been beamformed with a window length strictly between the two ends
C5_Witness ==
    /\ pc = "band_save"
    /\ cfg.nbands = MaxScheduleBands
    /\ 0 < ii /\ ii < cfg.nbands - 1
    /\ cfg.window_length = "adaptive"
    /\ cfg.WINLEN_1 > cfg.WINLEN_X
    /\ beam.winlen = PyIndex(WINLEN_list, ii)
    /\ RatLT(<<cfg.WINLEN_X, 1>>, beam.winlen)
    /\ RatLT(beam.winlen, <<cfg.WINLEN_1, 1>>)

----------------------------------------------------------------------------
(* C6: when every external library call succeeds the script runs to        *)
(* completion; the figures are saved under their fixed names in the order  *)
(* LeastSquares, Filter_Frequency_Response_Broadband,                      *)
(* Processing_Parameters, LeastSquaresButPMCC, each closed before the next *)
(* stage starts, the last two only after all nbands bands are processed.   *)
FigureOrder ==
    <<"LeastSquares", "Filter_Frequency_Response_Broadband",
      "Processing_Parameters", "LeastSquaresButPMCC">>

AfterClose ==
    {"resp", "fig2_plot", "loop", "fig3_plot", "fig4_plot", "done"}
        \cup AllocSteps \cup BandSteps

C6_RunsToCompletion ==
    /\ pc = "failed" => error.exc = "library"
    /\ Len(saved) <= Len(FigureOrder)
    /\ \A k \in 1..Len(saved) : saved[k] = FigureOrder[k]
    /\ pc \in AfterClose => open = {}
    /\ Len(saved) >= 3 => Len(num_compute_list) = cfg.nbands
    /\ pc = "done" => saved = FigureOrder

----------------------------------------------------------------------------
(* C7: a failure of any step is not caught: the run halts at that step,   *)
(* no later step executes (no band is processed, no row of the arrays is   *)
(* written, no figure is saved after it) and the step is not retried.      *)
C7_FailureHalts ==
    /\ [](error.exc # "none" => pc = "failed")
    /\ [][/\ pc # "failed"
          /\ pc' = "failed" =>
                /\ error'.at = pc
                /\ UNCHANGED <<aggregate, response, num_compute_list, ii, saved>>]_vars

\* Beamforming of the second band has failed after the first band was saved
C7_Witness ==
    /\ pc = "failed"
    /\ error = [at |-> "band_ltsva", exc |-> "library"]
    /\ ii = 1
    /\ Len(num_compute_list) = 1

----------------------------------------------------------------------------
(* C8: for both data sources the geometry has one entry per channel of the *)
(* Waveform Collection, in the collection's channel order: entry k is the  *)
(* position of channel k.                                                  *)
C8_GeometryMatchesChannels ==
    rij # <<>> =>
        /\ Len(rij) = Len(st.traces)
        /\ \A k \in 1..Len(rij) :
              k \in DOMAIN st.traces
                  /\ rij[k] = <<latitude(st.traces[k]), longitude(st.traces[k])>>

----------------------------------------------------------------------------
(* C9: a step of the loop on band ii changes no row other than row ii of   *)
(* the six arrays, keeps the entries num_compute_list already has, adding  *)
(* at most one, and leaves freqlist, WINLEN_list, rij and stf_broad alone. *)
OtherRowsKept(a, b) ==
    /\ DOMAIN b = DOMAIN a
    /\ \A i \in DOMAIN a : i # ii => b[i] = a[i]

C9_BandStepFrame ==
    [][InLoop =>
        /\ OtherRowsKept(vel_array, vel_array')
        /\ OtherRowsKept(baz_array, baz_array')
        /\ OtherRowsKept(mdccm_array, mdccm_array')
        /\ OtherRowsKept(t_array, t_array')
        /\ OtherRowsKept(w_array, w_array')
        /\ OtherRowsKept(h_array, h_array')
        /\ Len(num_compute_list') \in {Len(num_compute_list), Len(num_compute_list) + 1}
        /\ \A k \in 1..Len(num_compute_list) : num_compute_list'[k] = num_compute_list[k]
        /\ pc = "band_save" /\ pc' # "failed" =>
              Len(num_compute_list') = Len(num_compute_list) + 1
        /\ UNCHANGED <<freqlist, WINLEN_list, rij, stf_broad>>]_vars

\* The second band has been saved beside the first
C9_Witness ==
    /\ Len(num_compute_list) = 2
    /\ vector_len > 0
    /\ PyIndex(num_compute_list, 0) > 0
    /\ PyIndex(num_compute_list, 1) > 0

----------------------------------------------------------------------------
(* C10: st is not modified once it is gathered; the broadband pass filters *)
(* the unfiltered st to [FMIN, FMAX] and beamforms it with WINLEN whatever *)
(* the schedule; band ii filters the unfiltered st to its own two edges,   *)
(* so its input carries no earlier filtering.                              *)
Unfiltered(stream) == [stream EXCEPT !.filt = <<>>]

C10_EachPassFiltersOriginal ==
    /\ [](st.filt = <<>>)
    /\ [](stf_broad # NoStream =>
            /\ stf_broad.filt = <<<<<<cfg.FMIN, 1>>, <<cfg.FMAX, 1>>>>>>
            /\ Unfiltered(stf_broad) = st)
    /\ [](pc = "fig1_plot" =>
            beam.stream = stf_broad /\ beam.winlen = <<cfg.WINLEN, 1>>)
    /\ [](Filtered =>
            /\ tempst_filter.filt = <<<<PyIndex(freqlist, ii), PyIndex(freqlist, ii + 1)>>>>
            /\ Unfiltered(tempst_filter) = st)
    /\ [](Beamformed => beam.stream = tempst_filter)
    /\ [][pc \notin GatherSteps => st' = st]_vars

\* The second band of an adaptive run has been beamformed, with a broadband
\* window length that is neither end of the schedule
C10_Witness ==
    /\ pc = "band_save"
    /\ ii = 1
    /\ cfg.window_length = "adaptive"
    /\ cfg.WINLEN # cfg.WINLEN_1
    /\ cfg.WINLEN # cfg.WINLEN_X
    /\ stf_broad # NoStream

============================================================================
